---------------------------- MODULE Spec2Model ----------------------------
(***************************************************************************)
(* BatchProcessor (src/src/js/batch-processor.js) as a state machine, the  *)
(* application's single-image flow and its image functions.                *)
(*                                                                         *)
(* JavaScript runs one job at a time: a public method, or the part of      *)
(* start() between two awaits, runs to completion before any other event   *)
(* is taken.  The variable `running` names the start() activation that is  *)
(* executing synchronously (0: the event loop is idle); while it is not 0  *)
(* only that activation steps.  start() is cut at every statement that     *)
(* calls out of the class (a callback, the processing function), so that   *)
(* the order of these calls is visible in the states.                      *)
(*                                                                         *)
(* Item objects live in `objs` (an object's identity is its index), the    *)
(* queue holds references to them: reset() replaces the queue array, while *)
(* a suspended start() keeps its reference `item` to the old object.       *)
(*                                                                         *)
(* Three specifications.  Spec: addFiles, start and cancel, with a         *)
(* processing function that resolves with its documented object or fails   *)
(* with an Error, and callbacks that return.  SpecReset: the same and      *)
(* reset().  SpecAny: Spec's operations with collaborators that may settle *)
(* with any value and callbacks that may throw.  hist, progress,           *)
(* completions and op record what the collaborators and the caller saw;    *)
(* the class reads none of them.                                           *)
(*                                                                         *)
(* SpecSingle: files selected one at a time (handleSingleFile and          *)
(* processImage, an activation per file in `single`), the user interface   *)
(* in `ui`.  SpecImage: preprocessImage, postprocessImage and              *)
(* composeFinalImage applied to images and tensors, in `img`.  Pixels are  *)
(* bytes; a tensor's numbers are binary fractions m / 2^k, rounded as a    *)
(* Float32Array rounds them.                                               *)
(***************************************************************************)
EXTENDS Integers, Sequences, FiniteSets, TLC

\* ------------------------------------------------------------------ bounds
\* Items ever admitted (objects ever created by addFiles).
MaxItems == 3
\* Files handed to one addFiles call.
MaxBatch == 2
\* start() calls that pass the re-entrancy guard.
MaxRuns == 2
\* start() activations that can be alive at once.
MaxLoops == 2
\* reset() calls.
MaxResets == 1
\* Files selected in single-image mode.
MaxSingles == 3
\* Width and height of an image, in pixels.
MaxWidth == 6
MaxHeight == 5
\* The feather slider's largest value.
MaxFeather == 4

\* --------------------------------------------------------------- constants
QUEUED == "queued"
PROCESSING == "processing"
COMPLETE == "complete"
ERROR == "error"
CANCELLED == "cancelled"

BatchItemStatus == {QUEUED, PROCESSING, COMPLETE, ERROR, CANCELLED}

INVALID_FILE_TYPE == "Please select a valid image file (PNG, JPEG, WebP)"
PROCESSING_FAILED_DEFAULT == "Processing failed"

\* JavaScript's null, where a message (a string) is expected.
NullMsg == "<null>"
\* A failure's message as the processing function's Error carries it.
FailureMessage == "inference failed"

\* Values a processing call can settle with.  tag "object": the documented
\* { dataUrl, originalDataUrl } of the item numbered url; "nullish": null or
\* undefined; "falsy": 0, "", false or NaN; "null": the initial item.result.
Value(tag, url) == [tag |-> tag, url |-> url]
NullResult == Value("null", 0)
Payload(o) == Value("object", o)

\* The files a caller can submit: one the validator accepts, one it rejects.
Files == {"photo.png", "notes.txt"}

\* What the collaborators of the class may do.  resolves/rejects: how a
\* processing call may settle; callbacks: whether onItemUpdate,
\* onProgressUpdate and onComplete return or may throw.
ContractEnv ==
    [resolves |-> {"object"},
     rejects |-> {"message", "nomessage"},
     callbacks |-> {"returns"}]
AnyEnv ==
    [resolves |-> {"object", "nullish", "falsy"},
     rejects |-> {"message", "nomessage", "nullish"},
     callbacks |-> {"returns", "throws"}]

NoOutcome == [kind |-> "none", what |-> "none"]

VARIABLES
    objs,           \* every item object ever created: [id, file, fileName, status, result, error]
    queue,          \* this.queue: references (indices into objs)
    isProcessing,   \* this.isProcessing
    isCancelled,    \* this.isCancelled
    currentIndex,   \* this.currentIndex
    loops,          \* start() activations: [pc, i, j, item, outcome]
    running,        \* the activation executing synchronously, 0 when none
    runs,           \* start() calls that passed the guard
    op,             \* the last public call: [name, args, ret]
    hist,           \* per object, what the collaborators saw: [calls, outcome, reports, updates, atCancel]
    progress,       \* the arguments of the last onProgressUpdate call
    completions,    \* the arguments of every onComplete call
    ui,             \* the UIManager: [currentState, errors, gallery, timers]
    resets,         \* reset() calls so far
    single,         \* the handleSingleFile activations
    img             \* the image pipeline: rasters, tensors, the composed raster

vars == <<objs, queue, isProcessing, isCancelled, currentIndex, loops,
          running, runs, op, hist, progress, completions, ui, resets, single, img>>

\* What addFiles, start() and cancel() never touch.
apart == <<resets, single, img>>

Loops == 1..MaxLoops

IdleLoop == [pc |-> "idle", i |-> 0, j |-> 0, item |-> 0, outcome |-> NoOutcome]

\* --------------------------------------------------------------- UIManager
NO_IMAGES_PROCESSED == "No images were processed successfully"

\* new UIManager(elements, logger).  errors: the messages showError has put
\* on the page; gallery: the results showBatchResults has listed (none: <<>>);
\* preview: the image the result area shows; timers: the callbacks handed to
\* setTimeout that have not run yet.  updateProgress, which moves the
\* progress bar and writes the log, is left out.
UIManager ==
    [currentState |-> "idle", errors |-> <<>>, gallery |-> <<>>,
     preview |-> "none", timers |-> <<>>]

showError(u, message) == [u EXCEPT !.errors = Append(@, message)]
\* UIManager.reset()
uiManagerReset(u) == [u EXCEPT !.currentState = "idle"]
setProcessing(u) == [u EXCEPT !.currentState = "processing"]
showBatchResults(u, results) ==
    [u EXCEPT !.gallery = results, !.currentState = "result"]
setTimeout(u, fn, arg) == [u EXCEPT !.timers = Append(@, [fn |-> fn, arg |-> arg])]

\* A handler that reports the overall failure whenever some item is missing
\* from the results.
handleBatchCompleteAllOrNothing(u, results) ==
    IF Len(results) = Len(queue)
    THEN setTimeout(u, "showBatchResults", results)
    ELSE uiManagerReset(showError(u, NO_IMAGES_PROCESSED))

\* Application.handleBatchComplete(results), the onComplete callback of the
\* queue (this.batchResults = results is the last entry of completions).
handleBatchComplete(u, results) ==
    IF Len(results) > 0
    THEN setTimeout(u, "showBatchResults", results)
    ELSE uiManagerReset(showError(u, NO_IMAGES_PROCESSED))

\* UIManager.showResult(dataUrl, originalDataUrl): the result is put on the
\* page after the animation delay.
showResult(u, dataUrl) == setTimeout(u, "showResult", dataUrl)
\* The callback showResult hands to setTimeout.
showResultLater(u, dataUrl) ==
    [u EXCEPT !.preview = dataUrl, !.currentState = "result"]

\* No image loaded.
NoImage == [stage |-> "none"]

\* A public call as the caller sees it: its arguments, what it returned,
\* whether it threw instead.
Call(name, args, ret, threw) ==
    [name |-> name, args |-> args, ret |-> ret, threw |-> threw]

\* constructor
Init ==
    /\ objs = <<>>
    /\ queue = <<>>
    /\ isProcessing = FALSE
    /\ isCancelled = FALSE
    /\ currentIndex = 0
    /\ loops = [l \in Loops |-> IdleLoop]
    /\ running = 0
    /\ runs = 0
    /\ op = Call("new", <<>>, <<>>, FALSE)
    /\ hist = <<>>
    /\ progress = <<>>
    /\ completions = <<>>
    /\ ui = setProcessing(UIManager)
    /\ resets = 0
    /\ single = [flows |-> <<>>, currentImageBitmap |-> "none"]
    /\ img = NoImage

\* ----------------------------------------------------------------- helpers
Terminal == {COMPLETE, ERROR, CANCELLED}

\* JavaScript truthiness of an item.result.
Truthy(v) == v.tag = "object"

\* utils.js validateImageFile: { valid, error }.  Only the verdict and its
\* message reach the queue; a file rejected for its size is treated like one
\* rejected for its type, with the other message.
validateImageFile(file) ==
    IF file = "notes.txt"
    THEN [valid |-> FALSE, error |-> INVALID_FILE_TYPE]
    ELSE [valid |-> TRUE, error |-> NullMsg]

\* generateId: a fresh id, here the number of the object it names.
generateId(n) == n

\* An item admitted as QUEUED whatever the validator says.
NewItemAlwaysQueued(file, n) ==
    [id |-> generateId(n),
     file |-> file,
     fileName |-> file,
     status |-> QUEUED,
     result |-> NullResult,
     error |-> validateImageFile(file).error]

\* The item object addFiles builds for a file.
NewItem(file, n) ==
    LET validation == validateImageFile(file) IN
    [id |-> generateId(n),
     file |-> file,
     fileName |-> file,
     status |-> IF validation.valid THEN QUEUED ELSE ERROR,
     result |-> NullResult,
     error |-> IF validation.valid THEN NullMsg ELSE validation.error]

NewHist(item) ==
    [calls |-> 0, outcome |-> NoOutcome, reports |-> 0,
     updates |-> <<item.status>>, atCancel |-> "none"]

\* The filters of getProgress and getResults.
IsTerminalRef(o) == objs[o].status \in Terminal
\* A filter that keeps failed items too.
IsFinishedRef(o) == objs[o].status \in {COMPLETE, ERROR}
IsResultRef(o) == objs[o].status = COMPLETE /\ Truthy(objs[o].result)
IsCompleteRef(o) == objs[o].status = COMPLETE

\* A progress that counts the COMPLETE items only.
getProgressCompleteOnly ==
    [completed |-> Len(SelectSeq(queue, IsCompleteRef)),
     total |-> Len(queue)]

\* getProgress: { completed, total } (processing, a file name, is not used by start).
getProgress ==
    [completed |-> Len(SelectSeq(queue, IsTerminalRef)),
     total |-> Len(queue)]

ResultEntry(o) ==
    [id |-> objs[o].id, fileName |-> objs[o].fileName,
     dataUrl |-> objs[o].result.url, originalDataUrl |-> objs[o].result.url]

\* getResults
getResults ==
    LET kept == SelectSeq(queue, IsResultRef) IN
    [n \in 1..Len(kept) |-> ResultEntry(kept[n])]

\* hasResults
hasResults == \E n \in 1..Len(queue) : objs[queue[n]].status = COMPLETE

Active(l) == loops[l].pc # "idle"
InFlight(l) == loops[l].pc = "await"

\* A callback call: the collaborator returns or, where it may, throws.
Notified(o, status) ==
    [hist EXCEPT ![o].updates = Append(@, status)]
Reported(o) ==
    [hist EXCEPT ![o].reports = @ + 1]

\* An exception leaves start(): the activation is gone, its promise rejected.
Thrown(l) == [loops EXCEPT ![l] = IdleLoop]

\* ----------------------------------------------------------------- addFiles
\* addFiles(files); thrownAt > 0: onItemUpdate throws for the thrownAt-th file,
\* after that file's item was pushed, and addFiles returns nothing.
addFiles(files, thrownAt) ==
    LET k == IF thrownAt = 0 THEN Len(files) ELSE thrownAt
        base == Len(objs)
        items == [n \in 1..k |-> NewItem(files[n], base + n)]
        addedIds == [n \in 1..k |-> items[n].id]
    IN
    /\ running = 0
    /\ base + Len(files) <= MaxItems
    /\ objs' = objs \o items
    /\ queue' = queue \o [n \in 1..k |-> base + n]
    /\ hist' = hist \o [n \in 1..k |-> NewHist(items[n])]
    /\ op' = Call("addFiles", files, IF thrownAt = 0 THEN addedIds ELSE <<>>,
                  thrownAt # 0)
    /\ UNCHANGED <<isProcessing, isCancelled, currentIndex, loops, running,
                   runs, progress, completions, ui, apart>>

FileLists == UNION {[1..n -> Files] : n \in 0..MaxBatch}

\* -------------------------------------------------------------------- start
\* start() with the cancellation flag cleared before the guard is tested.
startClearsFlagFirst ==
    /\ running = 0
    /\ op' = Call("start", <<>>, <<>>, FALSE)
    /\ IF isProcessing
       THEN /\ isCancelled' = FALSE
            /\ UNCHANGED <<objs, queue, isProcessing, currentIndex,
                           loops, running, runs, hist, progress, completions, ui, apart>>
       ELSE /\ runs < MaxRuns
            /\ \E l \in Loops :
                 /\ ~Active(l)
                 /\ \A k \in Loops : k < l => Active(k)
                 /\ loops' = [loops EXCEPT ![l] = [IdleLoop EXCEPT !.pc = "head"]]
                 /\ running' = l
            /\ isProcessing' = TRUE
            /\ isCancelled' = FALSE
            /\ runs' = runs + 1
            /\ UNCHANGED <<objs, queue, currentIndex, hist, progress, completions, ui, apart>>

\* start(), to its first statement inside the loop: the guard, the two flags.
start ==
    /\ running = 0
    /\ op' = Call("start", <<>>, <<>>, FALSE)
    /\ IF isProcessing
       THEN UNCHANGED <<objs, queue, isProcessing, isCancelled, currentIndex,
                        loops, running, runs, hist, progress, completions, ui, apart>>
       ELSE /\ runs < MaxRuns
            /\ \E l \in Loops :
                 /\ ~Active(l)
                 /\ \A k \in Loops : k < l => Active(k)
                 /\ loops' = [loops EXCEPT ![l] = [IdleLoop EXCEPT !.pc = "head"]]
                 /\ running' = l
            /\ isProcessing' = TRUE
            /\ isCancelled' = FALSE
            /\ runs' = runs + 1
            /\ UNCHANGED <<objs, queue, currentIndex, hist, progress, completions, ui, apart>>

\* The loop walking the queue from its end.
IndexOfReversed(i) == Len(queue) - i

\* this.queue[i]: the position the loop looks at in its turn i.
IndexOf(i) == i + 1

\* A loop head that skips finished items only, so that a later run takes up a
\* failed item again.
LoopHeadRetriesFailed(l) ==
    /\ running = l
    /\ loops[l].pc = "head"
    /\ LET i == loops[l].i IN
       IF ~(i < Len(queue))
       THEN /\ loops' = [loops EXCEPT ![l].pc = "finish"]
            /\ UNCHANGED <<objs, currentIndex>>
       ELSE IF isCancelled
       THEN /\ loops' = [loops EXCEPT ![l].pc = "cancel", ![l].j = i]
            /\ UNCHANGED <<objs, currentIndex>>
       ELSE IF objs[queue[IndexOf(i)]].status \notin {QUEUED, ERROR}
       THEN /\ loops' = [loops EXCEPT ![l].i = i + 1]
            /\ UNCHANGED <<objs, currentIndex>>
       ELSE /\ objs' = [objs EXCEPT ![queue[IndexOf(i)]].status = PROCESSING]
            /\ currentIndex' = i
            /\ loops' = [loops EXCEPT ![l].pc = "notifyProcessing",
                                      ![l].item = queue[IndexOf(i)]]
    /\ UNCHANGED <<queue, isProcessing, isCancelled, running, runs, op, hist,
                   progress, completions, ui, apart>>

\* A loop head that leaves the loop on cancellation without marking the
\* remaining items.
LoopHeadLeavesOnCancel(l) ==
    /\ running = l
    /\ loops[l].pc = "head"
    /\ LET i == loops[l].i IN
       IF ~(i < Len(queue)) \/ isCancelled
       THEN /\ loops' = [loops EXCEPT ![l].pc = "finish"]
            /\ UNCHANGED <<objs, currentIndex>>
       ELSE IF objs[queue[IndexOf(i)]].status # QUEUED
       THEN /\ loops' = [loops EXCEPT ![l].i = i + 1]
            /\ UNCHANGED <<objs, currentIndex>>
       ELSE /\ objs' = [objs EXCEPT ![queue[IndexOf(i)]].status = PROCESSING]
            /\ currentIndex' = i
            /\ loops' = [loops EXCEPT ![l].pc = "notifyProcessing",
                                      ![l].item = queue[IndexOf(i)]]
    /\ UNCHANGED <<queue, isProcessing, isCancelled, running, runs, op, hist,
                   progress, completions, ui, apart>>

\* The loop head: the bound test, the cancellation test, the skip of an item
\* that is not QUEUED, and the marking of the next item as PROCESSING.
LoopHead(l) ==
    /\ running = l
    /\ loops[l].pc = "head"
    /\ LET i == loops[l].i IN
       IF ~(i < Len(queue))
       THEN /\ loops' = [loops EXCEPT ![l].pc = "finish"]
            /\ UNCHANGED <<objs, currentIndex>>
       ELSE IF isCancelled
       THEN /\ loops' = [loops EXCEPT ![l].pc = "cancel", ![l].j = i]
            /\ UNCHANGED <<objs, currentIndex>>
       ELSE IF objs[queue[IndexOf(i)]].status # QUEUED
       THEN /\ loops' = [loops EXCEPT ![l].i = i + 1]
            /\ UNCHANGED <<objs, currentIndex>>
       ELSE /\ objs' = [objs EXCEPT ![queue[IndexOf(i)]].status = PROCESSING]
            /\ currentIndex' = i
            /\ loops' = [loops EXCEPT ![l].pc = "notifyProcessing",
                                      ![l].item = queue[IndexOf(i)]]
    /\ UNCHANGED <<queue, isProcessing, isCancelled, running, runs, op, hist,
                   progress, completions, ui, apart>>

\* Cancellation that marks the next QUEUED item only, then leaves the loop.
CancelOnlyNext(l, e) ==
    /\ running = l
    /\ loops[l].pc = "cancel"
    /\ LET j == loops[l].j IN
       IF ~(j < Len(queue))
       THEN /\ loops' = [loops EXCEPT ![l].pc = "finish"]
            /\ UNCHANGED <<objs, hist>>
       ELSE IF objs[queue[j + 1]].status # QUEUED
       THEN /\ loops' = [loops EXCEPT ![l].j = j + 1]
            /\ UNCHANGED <<objs, hist>>
       ELSE /\ objs' = [objs EXCEPT ![queue[j + 1]].status = CANCELLED]
            /\ hist' = [hist EXCEPT ![queue[j + 1]].updates = Append(@, CANCELLED)]
            /\ loops' = [loops EXCEPT ![l].pc = "finish"]
    /\ UNCHANGED <<queue, isProcessing, isCancelled, currentIndex, running,
                   runs, op, progress, completions, ui, apart>>

\* One turn of the inner loop that marks the remaining QUEUED items CANCELLED.
CancelRemaining(l, e) ==
    /\ running = l
    /\ loops[l].pc = "cancel"
    /\ LET j == loops[l].j IN
       IF ~(j < Len(queue))
       THEN /\ loops' = [loops EXCEPT ![l].pc = "finish"]
            /\ UNCHANGED <<objs, hist, running>>
       ELSE IF objs[queue[j + 1]].status # QUEUED
       THEN /\ loops' = [loops EXCEPT ![l].j = j + 1]
            /\ UNCHANGED <<objs, hist, running>>
       ELSE /\ objs' = [objs EXCEPT ![queue[j + 1]].status = CANCELLED]
            /\ hist' = Notified(queue[j + 1], CANCELLED)
            /\ \E c \in e.callbacks :
                 IF c = "throws"
                 THEN loops' = Thrown(l) /\ running' = 0
                 ELSE loops' = [loops EXCEPT ![l].j = j + 1] /\ running' = l
    /\ UNCHANGED <<queue, isProcessing, isCancelled, currentIndex, runs, op,
                   progress, completions, ui, apart>>

\* onItemUpdate(item.id, PROCESSING, null)
NotifyProcessing(l, e) ==
    /\ running = l
    /\ loops[l].pc = "notifyProcessing"
    /\ hist' = Notified(loops[l].item, PROCESSING)
    /\ \E c \in e.callbacks :
         IF c = "throws"
         THEN loops' = Thrown(l) /\ running' = 0
         ELSE loops' = [loops EXCEPT ![l].pc = "reportBefore"] /\ running' = l
    /\ UNCHANGED <<objs, queue, isProcessing, isCancelled, currentIndex, runs,
                   op, progress, completions, ui, apart>>

\* onProgressUpdate(progress.completed, progress.total), before the call
ReportBefore(l, e) ==
    /\ running = l
    /\ loops[l].pc = "reportBefore"
    /\ hist' = Reported(loops[l].item)
    /\ progress' = <<getProgress.completed, getProgress.total>>
    /\ \E c \in e.callbacks :
         IF c = "throws"
         THEN loops' = Thrown(l) /\ running' = 0
         ELSE loops' = [loops EXCEPT ![l].pc = "invoke"] /\ running' = l
    /\ UNCHANGED <<objs, queue, isProcessing, isCancelled, currentIndex, runs,
                   op, completions, ui, apart>>

\* this.processCallback(item.file) is called and start() suspends on its await.
Invoke(l) ==
    /\ running = l
    /\ loops[l].pc = "invoke"
    /\ hist' = [hist EXCEPT ![loops[l].item].calls = @ + 1]
    /\ loops' = [loops EXCEPT ![l].pc = "await"]
    /\ running' = 0
    /\ UNCHANGED <<objs, queue, isProcessing, isCancelled, currentIndex, runs,
                   op, progress, completions, ui, apart>>

Outcomes(e) ==
    {[kind |-> "resolve", what |-> w] : w \in e.resolves}
        \cup {[kind |-> "reject", what |-> w] : w \in e.rejects}

\* The processing call settles and start() resumes after its await.
Settle(l, e) ==
    /\ running = 0
    /\ loops[l].pc = "await"
    /\ \E outcome \in Outcomes(e) :
         /\ loops' = [loops EXCEPT
                ![l].outcome = outcome,
                ![l].pc = IF outcome.kind = "resolve" THEN "resolved" ELSE "catch"]
         /\ hist' = [hist EXCEPT ![loops[l].item].outcome = outcome]
    /\ running' = l
    /\ UNCHANGED <<objs, queue, isProcessing, isCancelled, currentIndex, runs,
                   op, progress, completions, ui, apart>>

\* The value `result` of the settled call, for item o.
ResultValue(o, what) ==
    IF what = "object" THEN Payload(o) ELSE Value(what, 0)

\* A settled call whose item is marked CANCELLED when cancel() came meanwhile.
ResolvedHonoursCancel(l) ==
    /\ running = l
    /\ loops[l].pc = "resolved"
    /\ objs' = [objs EXCEPT
           ![loops[l].item].status = IF isCancelled THEN CANCELLED ELSE COMPLETE,
           ![loops[l].item].result = ResultValue(loops[l].item, loops[l].outcome.what)]
    /\ loops' = [loops EXCEPT ![l].pc = "notifyComplete"]
    /\ UNCHANGED <<queue, isProcessing, isCancelled, currentIndex, running,
                   runs, op, hist, progress, completions, ui, apart>>

\* item.status = COMPLETE; item.result = result
Resolved(l) ==
    /\ running = l
    /\ loops[l].pc = "resolved"
    /\ objs' = [objs EXCEPT
           ![loops[l].item].status = COMPLETE,
           ![loops[l].item].result = ResultValue(loops[l].item, loops[l].outcome.what)]
    /\ loops' = [loops EXCEPT ![l].pc = "notifyComplete"]
    /\ UNCHANGED <<queue, isProcessing, isCancelled, currentIndex, running,
                   runs, op, hist, progress, completions, ui, apart>>

\* onItemUpdate(item.id, COMPLETE, { dataUrl: result.dataUrl, ... }), inside
\* the try: result.dataUrl of a nullish result is a TypeError, raised before
\* the callback is called, and what the callback throws is caught as well.
NotifyComplete(l, e) ==
    /\ running = l
    /\ loops[l].pc = "notifyComplete"
    /\ IF objs[loops[l].item].result.tag = "nullish"
       THEN /\ loops' = [loops EXCEPT
                   ![l].pc = "catch",
                   ![l].outcome = [kind |-> "reject", what |-> "typeerror"]]
            /\ UNCHANGED hist
       ELSE /\ hist' = Notified(loops[l].item, COMPLETE)
            /\ \E c \in e.callbacks :
                 IF c = "throws"
                 THEN loops' = [loops EXCEPT
                          ![l].pc = "catch",
                          ![l].outcome = [kind |-> "reject", what |-> "callback"]]
                 ELSE loops' = [loops EXCEPT ![l].pc = "reportAfter"]
    /\ UNCHANGED <<objs, queue, isProcessing, isCancelled, currentIndex,
                   running, runs, op, progress, completions, ui, apart>>

TYPE_ERROR_MESSAGE == "Cannot read properties of undefined (reading 'dataUrl')"
CALLBACK_ERROR_MESSAGE == "onItemUpdate failed"

\* error.message of the caught value ("" when it has none).
MessageOf(what) ==
    CASE what = "message" -> FailureMessage
      [] what = "typeerror" -> TYPE_ERROR_MESSAGE
      [] what = "callback" -> CALLBACK_ERROR_MESSAGE
      [] OTHER -> ""

\* error.message || "Processing failed"
ErrorText(what) ==
    IF MessageOf(what) # "" THEN MessageOf(what) ELSE PROCESSING_FAILED_DEFAULT

\* catch (error): item.status = ERROR; item.error = error.message || "...".
\* error.message of a nullish error is a TypeError that leaves start().
Catch(l) ==
    /\ running = l
    /\ loops[l].pc = "catch"
    /\ IF loops[l].outcome.what = "nullish"
       THEN /\ objs' = [objs EXCEPT ![loops[l].item].status = ERROR]
            /\ loops' = Thrown(l)
            /\ running' = 0
       ELSE /\ objs' = [objs EXCEPT
                   ![loops[l].item].status = ERROR,
                   ![loops[l].item].error = ErrorText(loops[l].outcome.what)]
            /\ loops' = [loops EXCEPT ![l].pc = "notifyError"]
            /\ running' = l
    /\ UNCHANGED <<queue, isProcessing, isCancelled, currentIndex, runs, op,
                   hist, progress, completions, ui, apart>>

\* The loop left (break) after a failed item has been reported.
NotifyErrorThenBreak(l, e) ==
    /\ running = l
    /\ loops[l].pc = "notifyError"
    /\ hist' = [hist EXCEPT ![loops[l].item].updates = Append(@, ERROR)]
    /\ loops' = [loops EXCEPT ![l].pc = "finish"]
    /\ UNCHANGED <<objs, queue, isProcessing, isCancelled, currentIndex,
                   running, runs, op, progress, completions, ui, apart>>

\* onItemUpdate(item.id, ERROR, { error: item.error }), inside the catch
NotifyError(l, e) ==
    /\ running = l
    /\ loops[l].pc = "notifyError"
    /\ hist' = Notified(loops[l].item, ERROR)
    /\ \E c \in e.callbacks :
         IF c = "throws"
         THEN loops' = Thrown(l) /\ running' = 0
         ELSE loops' = [loops EXCEPT ![l].pc = "reportAfter"] /\ running' = l
    /\ UNCHANGED <<objs, queue, isProcessing, isCancelled, currentIndex, runs,
                   op, progress, completions, ui, apart>>

\* onProgressUpdate(...) after the item, then i++
ReportAfter(l, e) ==
    /\ running = l
    /\ loops[l].pc = "reportAfter"
    /\ hist' = Reported(loops[l].item)
    /\ progress' = <<getProgress.completed, getProgress.total>>
    /\ \E c \in e.callbacks :
         IF c = "throws"
         THEN loops' = Thrown(l) /\ running' = 0
         ELSE /\ loops' = [loops EXCEPT ![l].pc = "head", ![l].i = @ + 1]
              /\ running' = l
    /\ UNCHANGED <<objs, queue, isProcessing, isCancelled, currentIndex, runs,
                   op, completions, ui, apart>>

\* this.isProcessing = false
Finish(l) ==
    /\ running = l
    /\ loops[l].pc = "finish"
    /\ isProcessing' = FALSE
    /\ loops' = [loops EXCEPT ![l].pc = "notifyDone"]
    /\ UNCHANGED <<objs, queue, isCancelled, currentIndex, running, runs, op,
                   hist, progress, completions, ui, apart>>

\* A start() that returns without calling onComplete.
NotifyDoneSilent(l) ==
    /\ running = l
    /\ loops[l].pc = "notifyDone"
    /\ loops' = [loops EXCEPT ![l] = IdleLoop]
    /\ running' = 0
    /\ UNCHANGED <<objs, queue, isProcessing, isCancelled, currentIndex, runs,
                   op, hist, progress, completions, ui, apart>>

\* this.onComplete(this.getResults()); start() returns (or, the callback
\* throwing, ends rejected: the state is the same).
NotifyDone(l) ==
    /\ running = l
    /\ loops[l].pc = "notifyDone"
    /\ completions' = Append(completions, getResults)
    /\ ui' = handleBatchComplete(ui, getResults)
    /\ loops' = [loops EXCEPT ![l] = IdleLoop]
    /\ running' = 0
    /\ UNCHANGED <<objs, queue, isProcessing, isCancelled, currentIndex, runs,
                   op, hist, progress, apart>>

\* The timer set by handleBatchComplete fires (timers of one delay run in the
\* order they were set): this.uiManager.showBatchResults(results).
TimerFires ==
    /\ running = 0
    /\ ui.timers # <<>>
    /\ Head(ui.timers).fn = "showBatchResults"
    /\ ui' = showBatchResults([ui EXCEPT !.timers = Tail(@)], Head(ui.timers).arg)
    /\ UNCHANGED <<objs, queue, isProcessing, isCancelled, currentIndex, loops,
                   running, runs, op, hist, progress, completions, apart>>

\* ------------------------------------------------------------ cancel, reset
\* The status of each unfinished item of the queue when cancel() is called
\* during a run.
AtCancel ==
    [o \in 1..Len(hist) |->
        IF (\E l \in Loops : Active(l)) /\ (\E n \in 1..Len(queue) : queue[n] = o)
        THEN [hist[o] EXCEPT !.atCancel = IF objs[o].status \in Terminal THEN @ ELSE objs[o].status]
        ELSE hist[o]]

\* A cancel() that marks the QUEUED items CANCELLED itself.
cancelMarksQueued ==
    /\ running = 0
    /\ isCancelled' = TRUE
    /\ hist' = AtCancel
    /\ objs' = [o \in 1..Len(objs) |->
                  IF objs[o].status = QUEUED /\ (\E n \in 1..Len(queue) : queue[n] = o)
                  THEN [objs[o] EXCEPT !.status = CANCELLED]
                  ELSE objs[o]]
    /\ op' = Call("cancel", <<>>, <<>>, FALSE)
    /\ UNCHANGED <<queue, isProcessing, currentIndex, loops, running,
                   runs, progress, completions, ui, apart>>

cancel ==
    /\ running = 0
    /\ isCancelled' = TRUE
    /\ hist' = AtCancel
    /\ op' = Call("cancel", <<>>, <<>>, FALSE)
    /\ UNCHANGED <<objs, queue, isProcessing, currentIndex, loops, running,
                   runs, progress, completions, ui, apart>>

reset ==
    /\ running = 0
    /\ resets < MaxResets
    /\ resets' = resets + 1
    /\ queue' = <<>>
    /\ isProcessing' = FALSE
    /\ isCancelled' = FALSE
    /\ currentIndex' = 0
    /\ op' = Call("reset", <<>>, <<>>, FALSE)
    /\ UNCHANGED <<objs, loops, running, runs, hist, progress, completions, ui,
                   single, img>>

\* ------------------------------------------------------------ specifications
\* One synchronous step of the start() activation that is executing.
Step(l, e) ==
    \/ LoopHead(l)
    \/ CancelRemaining(l, e)
    \/ NotifyProcessing(l, e)
    \/ ReportBefore(l, e)
    \/ Invoke(l)
    \/ Resolved(l)
    \/ NotifyComplete(l, e)
    \/ Catch(l)
    \/ NotifyError(l, e)
    \/ ReportAfter(l, e)
    \/ Finish(l)
    \/ NotifyDone(l)

\* The operations of the batch queue (addFiles, start, cancel) with
\* collaborators that keep their contract: the processing function resolves
\* with its documented object or fails with an Error, callbacks return.
Next ==
    \/ \E files \in FileLists : addFiles(files, 0)
    \/ start
    \/ cancel
    \/ \E l \in Loops : Settle(l, ContractEnv)
    \/ \E l \in Loops : Step(l, ContractEnv)
    \/ TimerFires

Spec == Init /\ [][Next]_vars

\* Spec with the event loop running every job that is ready (the synchronous
\* steps of start()) and every processing call settling in the end.
SpecLive ==
    /\ Init
    /\ [][Next]_vars
    /\ WF_vars(\E l \in Loops : Step(l, ContractEnv))
    /\ WF_vars(\E l \in Loops : Settle(l, ContractEnv))

\* The same operations and reset().
NextReset ==
    \/ \E files \in FileLists : addFiles(files, 0)
    \/ start
    \/ cancel
    \/ reset
    \/ \E l \in Loops : Settle(l, ContractEnv)
    \/ \E l \in Loops : Step(l, ContractEnv)
    \/ TimerFires

SpecReset == Init /\ [][NextReset]_vars

\* addFiles, start and cancel with collaborators that may misbehave: any
\* settled value, callbacks that throw.
NextAny ==
    \/ \E files \in FileLists : \E t \in 0..Len(files) : addFiles(files, t)
    \/ start
    \/ cancel
    \/ \E l \in Loops : Settle(l, AnyEnv)
    \/ \E l \in Loops : Step(l, AnyEnv)
    \/ TimerFires

SpecAny == Init /\ [][NextAny]_vars

\* -------------------------------------------------------- single-image mode
\* handleFileSelection with one file: handleSingleFile and processImage.  An
\* activation is suspended at one of its awaits (pc) or is over ("done");
\* ran: the steps of the pipeline it has entered, in order; failed: the step
\* that failed and what it failed with; shown: whether it called showResult.
PROCESSING_FAILED == "Image processing failed"

Pipeline ==
    <<"validate", "load", "initialize", "preprocess", "delay", "inference",
      "decode", "compose", "showResult">>

\* The steps of the pipeline up to step number n.
Upto(n) == SubSeq(Pipeline, 1, n)

Flow(file) ==
    [file |-> file, pc |-> "done", ran |-> Upto(1), failed |-> "none",
     what |-> "none", shown |-> FALSE]

Flows == 1..Len(single.flows)

batchVars ==
    <<objs, queue, isProcessing, isCancelled, currentIndex, loops, running,
      runs, op, hist, progress, completions, resets>>

\* new Application(), init(): no file selected yet.
InitSingle ==
    /\ objs = <<>>
    /\ queue = <<>>
    /\ isProcessing = FALSE
    /\ isCancelled = FALSE
    /\ currentIndex = 0
    /\ loops = [l \in Loops |-> IdleLoop]
    /\ running = 0
    /\ runs = 0
    /\ op = Call("new", <<>>, <<>>, FALSE)
    /\ hist = <<>>
    /\ progress = <<>>
    /\ completions = <<>>
    /\ resets = 0
    /\ ui = UIManager
    /\ single = [flows |-> <<>>, currentImageBitmap |-> "none"]
    /\ img = NoImage

\* `${CONFIG.ERRORS.PROCESSING_FAILED}: ${error.message}`
ProcessingFailedText(what) ==
    PROCESSING_FAILED \o ": "
        \o (IF MessageOf(what) = "" THEN "undefined" ELSE MessageOf(what))

\* The catch of handleSingleFile: the error is shown, the UI reset.
Caught(k, ran, step, what) ==
    /\ single' = [single EXCEPT
           !.flows[k].pc = "done", !.flows[k].ran = ran,
           !.flows[k].failed = step, !.flows[k].what = what]
    /\ ui' = uiManagerReset(showError(ui, ProcessingFailedText(what)))

\* A handleSingleFile that goes on after showing the validation error.
handleSingleFileNoReturn(file) ==
    LET validation == validateImageFile(file) IN
    /\ Len(single.flows) < MaxSingles
    /\ single' = [single EXCEPT !.flows = Append(@,
           [Flow(file) EXCEPT !.pc = "load", !.ran = Upto(2),
               !.failed = IF validation.valid THEN "none" ELSE "validate"])]
    /\ ui' = IF validation.valid THEN setProcessing(ui)
             ELSE setProcessing(showError(ui, validation.error))
    /\ UNCHANGED <<batchVars, img>>

\* handleSingleFile(file), to the first await of processImage: the
\* validation, setProcessing(), loadImageFromFile(file) called.
handleSingleFile(file) ==
    LET validation == validateImageFile(file) IN
    /\ Len(single.flows) < MaxSingles
    /\ IF ~validation.valid
       THEN /\ single' = [single EXCEPT !.flows = Append(@,
                   [Flow(file) EXCEPT !.failed = "validate"])]
            /\ ui' = showError(ui, validation.error)
       ELSE /\ single' = [single EXCEPT !.flows = Append(@,
                   [Flow(file) EXCEPT !.pc = "load", !.ran = Upto(2)])]
            /\ ui' = setProcessing(ui)
    /\ UNCHANGED <<batchVars, img>>

\* loadImageFromFile settles: this.currentImageBitmap = imageBitmap, and
\* modelManager.initialize(...) is called.
LoadSettles(k, e) ==
    /\ single.flows[k].pc = "load"
    /\ \E outcome \in Outcomes(e) :
         IF outcome.kind = "resolve"
         THEN /\ single' = [single EXCEPT
                     !.currentImageBitmap = single.flows[k].file,
                     !.flows[k].pc = "initialize", !.flows[k].ran = Upto(3)]
              /\ UNCHANGED ui
         ELSE Caught(k, Upto(2), "load", outcome.what)
    /\ UNCHANGED <<batchVars, img>>

\* modelManager.initialize settles: resizeImageForModel and preprocessImage
\* run (and may throw), then the 100 ms delay is awaited.
InitializeSettles(k, e) ==
    /\ single.flows[k].pc = "initialize"
    /\ \E outcome \in Outcomes(e) :
         IF outcome.kind = "resolve"
         THEN \/ /\ single' = [single EXCEPT
                        !.flows[k].pc = "delay", !.flows[k].ran = Upto(5)]
                 /\ UNCHANGED ui
              \/ \E what \in e.rejects : Caught(k, Upto(4), "preprocess", what)
         ELSE Caught(k, Upto(3), "initialize", outcome.what)
    /\ UNCHANGED <<batchVars, img>>

\* The delay is over: modelManager.runInference(...) is called.
DelayElapses(k) ==
    /\ single.flows[k].pc = "delay"
    /\ single' = [single EXCEPT
           !.flows[k].pc = "inference", !.flows[k].ran = Upto(6)]
    /\ UNCHANGED <<batchVars, ui, img>>

\* runInference settles: postprocessImage and composeFinalImage run (each may
\* throw), then this.uiManager.showResult(finalDataUrl, originalDataUrl).
InferenceSettles(k, e) ==
    /\ single.flows[k].pc = "inference"
    /\ \E outcome \in Outcomes(e) :
         IF outcome.kind = "resolve"
         THEN \/ /\ single' = [single EXCEPT
                        !.flows[k].pc = "done", !.flows[k].ran = Upto(9),
                        !.flows[k].shown = TRUE]
                 /\ ui' = showResult(ui, single.flows[k].file)
              \/ \E what \in e.rejects : Caught(k, Upto(7), "decode", what)
              \/ \E what \in e.rejects : Caught(k, Upto(8), "compose", what)
         ELSE Caught(k, Upto(6), "inference", outcome.what)
    /\ UNCHANGED <<batchVars, img>>

\* The timer set by showResult fires.
ShowResultTimerFires ==
    /\ ui.timers # <<>>
    /\ Head(ui.timers).fn = "showResult"
    /\ ui' = showResultLater([ui EXCEPT !.timers = Tail(@)], Head(ui.timers).arg)
    /\ UNCHANGED <<batchVars, single, img>>

\* Files selected one at a time, a new one also while an earlier one is
\* still being processed; every awaited step resolves or fails with an Error.
NextSingle ==
    \/ \E file \in Files : handleSingleFile(file)
    \/ \E k \in Flows : LoadSettles(k, ContractEnv)
    \/ \E k \in Flows : InitializeSettles(k, ContractEnv)
    \/ \E k \in Flows : DelayElapses(k)
    \/ \E k \in Flows : InferenceSettles(k, ContractEnv)
    \/ ShowResultTimerFires

SpecSingle == InitSingle /\ [][NextSingle]_vars

\* ----------------------------------------------------------- image pipeline
\* image-processor.js: preprocessImage, postprocessImage, composeFinalImage
\* and createFeatheredBlend, applied to rasters of the bounded sizes (the
\* code is the same for every width and height).
INPUT_SIZE == 512
\* Samples postprocessImage looks at to tell the range of the model's output.
SAMPLE_SIZE == 1000

\* A ratio of config.js as a fraction: 0.15 and 0.16.
NARROW_RATIO == [num |-> 15, den |-> 100]
EXTENDED_RATIO == [num |-> 16, den |-> 100]

Min(a, b) == IF a <= b THEN a ELSE b
Max(a, b) == IF a >= b THEN a ELSE b
Abs(n) == IF n < 0 THEN -n ELSE n

\* A binary floating-point number, m / 2^k.  Every number of a tensor is one:
\* a Float32Array holds 24-bit significands, so m < 2^25 throughout.
Float(m, k) == [m |-> m, k |-> k]
Zero == Float(0, 0)
One == Float(1, 0)
Two == Float(2, 0)

\* m * 2^d, or a number of m's sign beyond every significand when the
\* product does not fit.
Saturated == 2^30
Shifted(m, d) ==
    IF m = 0 THEN 0
    ELSE IF d > 30 \/ Abs(m) >= 2^(30 - d)
    THEN (IF m > 0 THEN Saturated ELSE -Saturated)
    ELSE m * 2^d

\* a <= b
FLeq(a, b) ==
    IF a.k <= b.k THEN Shifted(a.m, b.k - a.k) <= b.m
    ELSE a.m <= Shifted(b.m, a.k - b.k)

\* Math.abs
FAbs(a) == Float(Abs(a.m), a.k)

\* n more bits of the quotient r / 255, appended to q, and the remainder.
RECURSIVE LongDivide(_, _, _)
LongDivide(q, r, n) ==
    IF n = 0 THEN <<q, r>>
    ELSE LongDivide(2 * q + (IF 2 * r >= 255 THEN 1 ELSE 0),
                    IF 2 * r >= 255 THEN 2 * r - 255 ELSE 2 * r, n - 1)

\* v / 255.0 stored in a Float32Array: the quotient rounded to the nearest
\* number with a 24-bit significand (no quotient of a byte by 255 lies half
\* way between two of them, and rounding to a double first changes nothing).
Float32Of255th(v) ==
    IF v = 0 THEN Zero
    ELSE LET s == CHOOSE s \in 0..8 :
                      v * 2^s >= 255 /\ (s = 0 \/ v * 2^(s - 1) < 255)
             d == LongDivide(1, v * 2^s - 255, 23)
             m == d[1] + (IF 2 * d[2] > 255 THEN 1 ELSE 0)
         IN Float(m, 23 + s)

\* Math.round(a * c), c a small whole number: the product is exact in a
\* double, and Math.round takes a half up, floor(a * c + 1/2).  The
\* significand is multiplied in two halves of twelve bits to stay within
\* the integers of the checker.
RoundTimes(a, c) ==
    IF a.k = 0 THEN a.m * c
    ELSE IF a.k <= 12 THEN (a.m * c + 2^(a.k - 1)) \div 2^a.k
    ELSE LET hi == a.m \div 4096
             lo == a.m % 4096
         IN (hi * c + (lo * c) \div 4096 + 2^(a.k - 13)) \div 2^(a.k - 12)

\* Math.min(255, Math.max(0, v))
Clamp(v) == Min(255, Max(0, v))

\* An ImageData or a canvas: width * height pixels <<r, g, b, a>>, row by
\* row; the byte data[(y * width + x) * 4 + c] is data[y * width + x + 1][c + 1].
ImageData(data, width, height) ==
    [width |-> width, height |-> height, data |-> data]

\* The pixel (x, y) of a raster.
PixelAt(image, x, y) == image.data[y * image.width + x + 1]

\* An ort.Tensor: its numbers and its dims.
Tensor(data, dims) == [data |-> data, dims |-> dims]

\* utils.js calculateWatermarkRegion(width, height, ratio): the bottom-right
\* rectangle, Math.round(width * ratio) wide and Math.round(height * ratio)
\* high.  The product by 0.15 or 0.16 rounds as the exact product does.
RoundRatio(n, ratio) == (2 * n * ratio.num + ratio.den) \div (2 * ratio.den)

calculateWatermarkRegion(width, height, ratio) ==
    LET regionWidth == RoundRatio(width, ratio)
        regionHeight == RoundRatio(height, ratio)
    IN [x |-> width - regionWidth, y |-> height - regionHeight,
        width |-> regionWidth, height |-> regionHeight]

\* The region preprocessImage masks: calculateWatermarkRegion(width, height),
\* the ratio left to its default.
maskRegion(width, height) ==
    calculateWatermarkRegion(width, height, NARROW_RATIO)

\* A mutant of maskValue: one of the two comparisons is enough.
maskValueEitherAxis(region, x, y) ==
    IF y >= region.y \/ x >= region.x THEN One ELSE Zero

\* maskData[idx] of preprocessImage, idx = y * width + x.
maskValue(region, x, y) ==
    IF y >= region.y /\ x >= region.x THEN One ELSE Zero

preprocessImage(imageData) ==
    LET width == imageData.width
        height == imageData.height
        n == width * height
        float32Data ==
            [j \in 1..(3 * n) |->
                Float32Of255th(imageData.data[((j - 1) % n) + 1][((j - 1) \div n) + 1])]
        region == maskRegion(width, height)
        maskData ==
            [idx \in 1..n |->
                maskValue(region, (idx - 1) % width, (idx - 1) \div width)]
    IN [imageTensor |-> Tensor(float32Data, <<1, 3, height, width>>),
        maskTensor |-> Tensor(maskData, <<1, 1, height, width>>)]

\* A mutant of sampleSize: every sample of the tensor is looked at.
sampleSizeWholeTensor(data) == Len(data)

\* The samples postprocessImage looks at: data[0 .. sampleSize - 1].
sampleSize(data) == Min(SAMPLE_SIZE, Len(data) \div 3)

\* maxVal after the loop over the samples: the largest Math.abs, 0 at least.
maxVal(data) ==
    LET seen == {FAbs(data[i]) : i \in 1..sampleSize(data)} \cup {Zero}
    IN CHOOSE a \in seen : \A b \in seen : FLeq(b, a)

isNormalized(data) == FLeq(maxVal(data), Two)

\* One channel of one pixel: scaled by 255 if the tensor is normalized,
\* rounded and clamped.
denormalize(v, normalized) ==
    Clamp(RoundTimes(v, IF normalized THEN 255 ELSE 1))

\* A mutant of rgbaData: the tensor read pixel by pixel, not plane by plane.
rgbaDataInterleaved(data, n, normalized) ==
    [i \in 1..n |->
        <<denormalize(data[3 * i - 2], normalized),
          denormalize(data[3 * i - 1], normalized),
          denormalize(data[3 * i], normalized), 255>>]

rgbaData(data, n, normalized) ==
    [i \in 1..n |->
        <<denormalize(data[i], normalized),
          denormalize(data[n + i], normalized),
          denormalize(data[2 * n + i], normalized), 255>>]

postprocessImage(outputTensor, width, height) ==
    ImageData(rgbaData(outputTensor.data, width * height,
                       isNormalized(outputTensor.data)), width, height)

\* composeFinalImage's featherSize left out: null (no pixel count is negative).
Null == -1
FEATHER_SIZE == 20

\* A mutant of origRegion: width and height handed over in the wrong order.
origRegionSwapped(origWidth, origHeight) ==
    calculateWatermarkRegion(origHeight, origWidth, EXTENDED_RATIO)

\* The watermark's rectangle in the original image and in the model's output.
origRegion(origWidth, origHeight) ==
    calculateWatermarkRegion(origWidth, origHeight, EXTENDED_RATIO)

processedRegion ==
    calculateWatermarkRegion(INPUT_SIZE, INPUT_SIZE, EXTENDED_RATIO)

\* A mutant of expandedRegion: the feather is not added to the width and
\* height.
expandedRegionShort(origWidth, origHeight, feather) ==
    LET region == origRegion(origWidth, origHeight)
        expandedX == Max(0, region.x - feather)
        expandedY == Max(0, region.y - feather)
    IN [x |-> expandedX, y |-> expandedY,
        width |-> Min(origWidth - expandedX, region.width),
        height |-> Min(origHeight - expandedY, region.height)]

\* expandedX, expandedY, expandedWidth and expandedHeight of composeFinalImage.
expandedRegion(origWidth, origHeight, feather) ==
    LET region == origRegion(origWidth, origHeight)
        expandedX == Max(0, region.x - feather)
        expandedY == Max(0, region.y - feather)
    IN [x |-> expandedX, y |-> expandedY,
        width |-> Min(origWidth - expandedX, region.width + feather),
        height |-> Min(origHeight - expandedY, region.height + feather)]

\* ctx.getImageData(sx, sy, sw, sh) of a canvas, the rectangle inside it.
getImageData(canvas, sx, sy, sw, sh) ==
    ImageData([i \in 1..(sw * sh) |->
                  PixelAt(canvas, sx + ((i - 1) % sw), sy + ((i - 1) \div sw))],
              sw, sh)

\* A mutant of putImageData: the rectangle is put at the canvas's origin.
putImageDataAtOrigin(canvas, imageData, dx, dy) ==
    ImageData([i \in 1..(canvas.width * canvas.height) |->
                  LET x == (i - 1) % canvas.width
                      y == (i - 1) \div canvas.width
                  IN IF x < imageData.width /\ y < imageData.height
                     THEN PixelAt(imageData, x, y)
                     ELSE canvas.data[i]],
              canvas.width, canvas.height)

\* ctx.putImageData(imageData, dx, dy): the canvas with the rectangle
\* replaced, every other pixel as it was.
putImageData(canvas, imageData, dx, dy) ==
    ImageData([i \in 1..(canvas.width * canvas.height) |->
                  LET x == (i - 1) % canvas.width
                      y == (i - 1) \div canvas.width
                  IN IF /\ dx <= x /\ x < dx + imageData.width
                        /\ dy <= y /\ y < dy + imageData.height
                     THEN PixelAt(imageData, x - dx, y - dy)
                     ELSE canvas.data[i]],
              canvas.width, canvas.height)

\* A mutant of distFromCoreSquared: only the horizontal distance counts.
distFromCoreSquaredAcross(x, y, coreOffsetX, coreOffsetY) ==
    LET distFromCoreX == IF x < coreOffsetX THEN coreOffsetX - x ELSE 0
    IN distFromCoreX * distFromCoreX

\* distFromCore squared: distFromCoreX^2 + distFromCoreY^2.
distFromCoreSquared(x, y, coreOffsetX, coreOffsetY) ==
    LET distFromCoreX == IF x < coreOffsetX THEN coreOffsetX - x ELSE 0
        distFromCoreY == IF y < coreOffsetY THEN coreOffsetY - y ELSE 0
    IN distFromCoreX * distFromCoreX + distFromCoreY * distFromCoreY

\* A mutant of blendAlpha: the smoothstep itself, not 1 minus it, in the
\* feather zone.
blendAlphaRising(distSquared, featherSize) ==
    IF distSquared <= 0 THEN 64 * 64 * 64
    ELSE IF distSquared >= featherSize * featherSize THEN 0
    ELSE LET t == CHOOSE t \in 0..64 :
                      /\ t * t * featherSize * featherSize
                            <= 64 * 64 * distSquared
                      /\ (t + 1) * (t + 1) * featherSize * featherSize
                            > 64 * 64 * distSquared
         IN t * t * (3 * 64 - 2 * t)

\* The blend's alpha in 64ths cubed (262144 is 1.0).  distFromCore <= 0 and
\* distFromCore >= featherSize are decided on the squares, exactly; in the
\* feather zone t is taken in whole 64ths, the smoothstep  1 - t^2 (3 - 2 t)
\* of it exactly.
blendAlpha(distSquared, featherSize) ==
    IF distSquared <= 0 THEN 64 * 64 * 64
    ELSE IF distSquared >= featherSize * featherSize THEN 0
    ELSE LET t == CHOOSE t \in 0..64 :
                      /\ t * t * featherSize * featherSize
                            <= 64 * 64 * distSquared
                      /\ (t + 1) * (t + 1) * featherSize * featherSize
                            > 64 * 64 * distSquared
         IN 64 * 64 * 64 - t * t * (3 * 64 - 2 * t)

\* Math.round(orig * (1 - alpha) + proc * alpha)
blendChannel(orig, proc, alpha) ==
    (orig * (64 * 64 * 64 - alpha) + proc * alpha + 32 * 64 * 64)
        \div (64 * 64 * 64)

createFeatheredBlend(original, processed, width, height, featherSize, coreOffsetX, coreOffsetY) ==
    ImageData([i \in 1..(width * height) |->
                  LET alpha ==
                          blendAlpha(distFromCoreSquared((i - 1) % width,
                                                         (i - 1) \div width,
                                                         coreOffsetX,
                                                         coreOffsetY),
                                     featherSize)
                      orig == original.data[i]
                      proc == processed.data[i]
                  IN <<blendChannel(orig[1], proc[1], alpha),
                       blendChannel(orig[2], proc[2], alpha),
                       blendChannel(orig[3], proc[3], alpha), 255>>],
              width, height)

\* const feather of composeFinalImage.
featherOf(featherSize) ==
    IF featherSize # Null THEN featherSize ELSE FEATHER_SIZE

\* getImageData of a rectangle without width or height throws.
composeThrows(originalBitmap, featherSize) ==
    LET expanded == expandedRegion(originalBitmap.width, originalBitmap.height,
                                   featherOf(featherSize))
    IN expanded.width = 0 \/ expanded.height = 0

\* The final canvas of composeFinalImage.  processedScaledData is what
\* drawImage made of the model's 512 x 512 result, scaled to the expanded
\* rectangle (lines 134-165, the canvas's resampling).
composeFinalImage(originalBitmap, processedScaledData, featherSize) ==
    LET feather == featherOf(featherSize)
        finalCanvas == originalBitmap
        region == origRegion(originalBitmap.width, originalBitmap.height)
        expanded == expandedRegion(originalBitmap.width,
                                   originalBitmap.height, feather)
        originalImageData ==
            getImageData(finalCanvas, expanded.x, expanded.y,
                         expanded.width, expanded.height)
        blendedData ==
            createFeatheredBlend(originalImageData, processedScaledData,
                                 expanded.width, expanded.height, feather,
                                 region.x - expanded.x, region.y - expanded.y)
    IN putImageData(finalCanvas, blendedData, expanded.x, expanded.y)

\* The pixels of a selected file: pixel i holds the bytes base + 3 i,
\* base + 3 i + 1 and base + 3 i + 2 (modulo 256) and the opacity alpha.
Bases == {0, 85, 170}
Alphas == {255, 128}
\* What drawImage made of the model's result.
ProcessedBases == {2, 128}

Raster(width, height, base, alpha) ==
    ImageData([i \in 1..(width * height) |->
                  <<(base + 3 * (i - 1)) % 256, (base + 3 * (i - 1) + 1) % 256,
                    (base + 3 * (i - 1) + 2) % 256, alpha>>],
              width, height)

\* Numbers a model can answer with: 0, 0.5 and 200 throughout, and one of
\* them 0, 0.5, 2.0, the float32 next above 2.0, -3 or 300.
Half == Float(1, 1)
JustAboveTwo == Float(2^23 + 1, 22)
OutputBases == {Zero, Half, Float(200, 0)}
OutputSpikes == {Zero, Half, Two, JustAboveTwo, Float(-3, 0), Float(300, 0)}

\* A model's answer for an image of n pixels in a row: base everywhere but
\* spike at data[at - 1].
ModelOutput(n, base, at, spike) ==
    Tensor([j \in 1..(3 * n) |-> IF j = at THEN spike ELSE base],
           <<1, 3, 1, n>>)

\* Where a spike is put: the first sample, the last one looked at, the first
\* one not looked at, a sample of the second channel.
SpikePlaces(n) == {1, SAMPLE_SIZE, SAMPLE_SIZE + 1, n + 2}

InitImage ==
    /\ objs = <<>>
    /\ queue = <<>>
    /\ isProcessing = FALSE
    /\ isCancelled = FALSE
    /\ currentIndex = 0
    /\ loops = [l \in Loops |-> IdleLoop]
    /\ running = 0
    /\ runs = 0
    /\ op = Call("new", <<>>, <<>>, FALSE)
    /\ hist = <<>>
    /\ progress = <<>>
    /\ completions = <<>>
    /\ resets = 0
    /\ ui = UIManager
    /\ single = [flows |-> <<>>, currentImageBitmap |-> "none"]
    /\ img = NoImage

\* loadImageFromFile: the file decoded, an ImageBitmap.
loadImageFromFile(width, height, base, alpha) ==
    /\ img = NoImage
    /\ img' = [stage |-> "loaded", bitmap |-> Raster(width, height, base, alpha)]
    /\ UNCHANGED <<batchVars, ui, single>>

\* preprocessImage(imageData), the image's pixels as they are (the
\* resampling of resizeImageForModel left out).
Preprocess ==
    /\ img.stage = "loaded"
    /\ img' = [stage |-> "tensors", imageData |-> img.bitmap,
               imageTensor |-> preprocessImage(img.bitmap).imageTensor,
               maskTensor |-> preprocessImage(img.bitmap).maskTensor]
    /\ UNCHANGED <<batchVars, ui, single>>

\* runInference with a model that answers with the image it was given.
EchoInference ==
    /\ img.stage = "tensors"
    /\ img' = [stage |-> "output", echo |-> TRUE, imageData |-> img.imageData,
               width |-> img.imageData.width, height |-> img.imageData.height,
               outputTensor |-> img.imageTensor]
    /\ UNCHANGED <<batchVars, ui, single>>

\* runInference with a model that answers with any of ModelOutput, for an
\* image of at least SAMPLE_SIZE pixels (the model's has 512 x 512).
AnyInference(n, base, at, spike) ==
    /\ img = NoImage
    /\ img' = [stage |-> "output", echo |-> FALSE,
               imageData |-> ImageData(<<>>, 0, 0), width |-> n, height |-> 1,
               outputTensor |-> ModelOutput(n, base, at, spike)]
    /\ UNCHANGED <<batchVars, ui, single>>

\* postprocessImage(outputTensor, width, height)
Postprocess ==
    /\ img.stage = "output"
    /\ img' = [stage |-> "decoded", echo |-> img.echo,
               imageData |-> img.imageData, outputTensor |-> img.outputTensor,
               processedImageData |->
                   postprocessImage(img.outputTensor, img.width, img.height)]
    /\ UNCHANGED <<batchVars, ui, single>>

\* composeFinalImage(imageBitmap, processedImageData, this.featherSize): it
\* throws, or the final canvas is what it returns the data URL of.
Compose(featherSize, base) ==
    /\ img.stage = "loaded"
    /\ LET expanded ==
               expandedRegion(img.bitmap.width, img.bitmap.height,
                              featherOf(featherSize))
           processedScaledData ==
               Raster(expanded.width, expanded.height, base, 255)
       IN img' = IF composeThrows(img.bitmap, featherSize)
                 THEN [stage |-> "composed", threw |-> TRUE,
                       bitmap |-> img.bitmap, featherSize |-> featherSize]
                 ELSE [stage |-> "composed", threw |-> FALSE,
                       bitmap |-> img.bitmap, featherSize |-> featherSize,
                       processedScaledData |-> processedScaledData,
                       final |-> composeFinalImage(img.bitmap,
                                                   processedScaledData,
                                                   featherSize)]
    /\ UNCHANGED <<batchVars, ui, single>>

\* The sizes of originals whose rectangles are worked out without their
\* pixels: the bounded ones and 1000 x 800.
OriginalSizes ==
    ((1..MaxWidth) \X (1..MaxHeight)) \cup {<<1000, 800>>}

\* composeFinalImage up to line 126: the core and the expanded rectangle of
\* an original of the given size.
ExpandRegion(width, height, featherSize) ==
    /\ img = NoImage
    /\ img' = [stage |-> "regions", width |-> width, height |-> height,
               featherSize |-> featherSize,
               origRegion |-> origRegion(width, height),
               expanded |-> expandedRegion(width, height,
                                           featherOf(featherSize))]
    /\ UNCHANGED <<batchVars, ui, single>>

NextImage ==
    \/ \E width \in 1..MaxWidth : \E height \in 1..MaxHeight :
           \E base \in Bases : \E alpha \in Alphas :
               loadImageFromFile(width, height, base, alpha)
    \/ Preprocess
    \/ EchoInference
    \/ \E n \in {SAMPLE_SIZE, SAMPLE_SIZE + 1} : \E base \in OutputBases :
           \E at \in SpikePlaces(n) : \E spike \in OutputSpikes :
               AnyInference(n, base, at, spike)
    \/ Postprocess
    \/ \E featherSize \in (0..MaxFeather) \cup {Null} :
           \E base \in ProcessedBases : Compose(featherSize, base)
    \/ \E size \in OriginalSizes :
           \E featherSize \in (0..MaxFeather) \cup {Null} :
               ExpandRegion(size[1], size[2], featherSize)

SpecImage == InitImage /\ [][NextImage]_vars

\* ------------------------------------------------------------------- claims
Objects == 1..Len(objs)
Positions == 1..Len(queue)
StatusAt(n) == objs[queue[n]].status
SomeLoopActive == \E l \in Loops : Active(l)

AllowedTransitions ==
    {<<QUEUED, PROCESSING>>, <<PROCESSING, COMPLETE>>, <<PROCESSING, ERROR>>,
     <<QUEUED, CANCELLED>>}

\* C1: every change of an item's status is QUEUED->PROCESSING,
\* PROCESSING->COMPLETE, PROCESSING->ERROR or QUEUED->CANCELLED, so a
\* COMPLETE, ERROR or CANCELLED item never changes status again, whatever the
\* callbacks and the result payload do.
C1_OnlyAllowedTransitions ==
    [][\A o \in Objects :
          objs'[o].status # objs[o].status
              => <<objs[o].status, objs'[o].status>> \in AllowedTransitions]_vars

\* C2: at most one call of the processing function is in flight and at most
\* one item of the queue is PROCESSING, under start, cancel, addFiles and
\* reset.
C2_AtMostOneInFlight ==
    /\ Cardinality({l \in Loops : InFlight(l)}) <= 1
    /\ Cardinality({n \in Positions : StatusAt(n) = PROCESSING}) <= 1

\* C3: a start() call made while an earlier start() is still active changes
\* no item, leaves the cancellation flag as it is, starts no processing call,
\* reports no progress and does not call onComplete.
C3_SecondStartIsNoOp ==
    [][(op' # op /\ op'.name = "start" /\ SomeLoopActive)
          => UNCHANGED <<objs, queue, isProcessing, isCancelled, currentIndex,
                         loops, running, runs, hist, progress, completions, ui, apart>>]_vars

\* start() was called after cancel() while a processing call is in flight: the
\* flag is still set.
C3_Witness ==
    /\ op.name = "start"
    /\ isCancelled
    /\ \E l \in Loops : InFlight(l)

\* An item has reached PROCESSING: it is PROCESSING, or its file was handed to
\* the processing function.
ReachedProcessing(o) == objs[o].status = PROCESSING \/ hist[o].calls > 0

\* C4: items are processed in queue order: when the item at position m has
\* been marked PROCESSING (or handed to the processing function), every item
\* at a position n < m is in a terminal state.
C4_QueueOrder ==
    \A m \in Positions : \A n \in 1..(m - 1) :
        ReachedProcessing(queue[m]) => StatusAt(n) \in Terminal

\* Two items were processed one after the other, the second is in flight.
C4_Witness ==
    /\ Len(queue) >= 2
    /\ hist[queue[1]].calls = 1
    /\ hist[queue[2]].calls = 1
    /\ StatusAt(2) = PROCESSING

\* The loop is handling the settled call of item o (between the await and
\* the second progress report).
Handling(o) ==
    \E l \in Loops :
        /\ loops[l].item = o
        /\ loops[l].pc \in {"resolved", "notifyComplete", "catch", "notifyError"}
Settling(o) ==
    \E l \in Loops : loops[l].item = o /\ loops[l].pc \in {"resolved", "catch"}
RunEnding == \E l \in Loops : loops[l].pc \in {"finish", "notifyDone"}

C6_CancelStopsAtBoundary ==
    /\ \A o \in Objects :
          hist[o].atCancel = QUEUED
              => /\ objs[o].status \in {QUEUED, CANCELLED}
                 /\ hist[o].calls = 0
                 /\ (RunEnding \/ ~SomeLoopActive) => objs[o].status = CANCELLED
    /\ isCancelled
          => \A l \in Loops :
                loops[l].pc \notin {"notifyProcessing", "reportBefore", "invoke"}
    /\ (isCancelled /\ RunEnding)
          => \A n \in Positions : StatusAt(n) \in Terminal

\* cancel() came while the first item was in flight: that item was completed,
\* the one behind it was cancelled.
C6_Witness ==
    /\ Len(queue) >= 2
    /\ hist[queue[1]].atCancel = PROCESSING
    /\ StatusAt(1) = COMPLETE
    /\ hist[queue[2]].atCancel = QUEUED
    /\ StatusAt(2) = CANCELLED

\* C7: an item that was PROCESSING when cancel() was called is never
\* CANCELLED: it stays PROCESSING until its call settles and then is COMPLETE
\* with the call's result, or ERROR with the failure's text.
C7_InFlightItemFinishes ==
    \A o \in Objects :
        hist[o].atCancel = PROCESSING
            => /\ objs[o].status # CANCELLED
               /\ (hist[o].outcome.kind = "none" \/ Settling(o))
                     => objs[o].status = PROCESSING
               /\ (hist[o].outcome.kind = "resolve" /\ ~Settling(o))
                     => objs[o].status = COMPLETE /\ objs[o].result = Payload(o)
               /\ (hist[o].outcome.kind = "reject" /\ ~Settling(o))
                     => /\ objs[o].status = ERROR
                        /\ objs[o].result = NullResult
                        /\ objs[o].error =
                              IF hist[o].outcome.what = "message"
                              THEN FailureMessage ELSE PROCESSING_FAILED_DEFAULT

\* cancel() came while an item was in flight and its call then failed.
C7_Witness ==
    \E o \in Objects :
        /\ hist[o].atCancel = PROCESSING
        /\ isCancelled
        /\ objs[o].status = ERROR
        /\ hist[o].outcome.kind = "reject"

\* The number of COMPLETE items at the positions up to n.
CompleteUpTo(n) == Cardinality({m \in 1..n : StatusAt(m) = COMPLETE})

\* C8: getResults() has exactly one entry per COMPLETE item of the queue and
\* no other, in queue order, each carrying the item's id and payload; a full
\* run over N items of which k failed leaves N - k entries.
C8_ResultsAreCompleteItems ==
    /\ Len(getResults) = CompleteUpTo(Len(queue))
    /\ \A n \in Positions :
          StatusAt(n) = COMPLETE
              => /\ getResults[CompleteUpTo(n)].id = objs[queue[n]].id
                 /\ getResults[CompleteUpTo(n)].dataUrl = queue[n]
    /\ (RunEnding /\ \A n \in Positions : StatusAt(n) \in {COMPLETE, ERROR})
          => Len(getResults)
                = Len(queue) - Cardinality({n \in Positions : StatusAt(n) = ERROR})

\* A run over three items ends: the second failed, the others were completed.
C8_Witness ==
    /\ RunEnding
    /\ Len(queue) = 3
    /\ StatusAt(1) = COMPLETE
    /\ StatusAt(2) = ERROR
    /\ hist[queue[2]].calls = 1
    /\ StatusAt(3) = COMPLETE
    /\ Len(getResults) = 2

\* Items of the queue in a terminal state, counted position by position.
TerminalCount ==
    Cardinality({n \in Positions : StatusAt(n) \in {COMPLETE, ERROR, CANCELLED}})

\* C9: onProgressUpdate is called for an item once after it is marked
\* PROCESSING and before its processing call, and once after it is COMPLETE
\* or ERROR, each time with (items in a terminal state, queue length).
C9_ProgressBeforeAndAfter ==
    /\ [](\A o \in Objects :
            /\ (\E l \in Loops : loops[l].item = o /\ loops[l].pc \in {"invoke", "await"})
                  => hist[o].reports = 1 /\ objs[o].status = PROCESSING
            /\ (hist[o].calls = 0 /\ ~(\E l \in Loops : loops[l].item = o /\ loops[l].pc = "invoke"))
                  => hist[o].reports = 0
            /\ (hist[o].calls > 0 /\ ~Handling(o)
                    /\ ~(\E l \in Loops : loops[l].item = o /\ loops[l].pc \in {"await", "reportAfter"}))
                  => hist[o].reports = 2 /\ objs[o].status \in {COMPLETE, ERROR})
    /\ [][\A o \in Objects :
            hist'[o].reports # hist[o].reports
                => /\ hist'[o].reports = hist[o].reports + 1
                   /\ progress' = <<TerminalCount, Len(queue)>>
                   /\ hist[o].reports = 0 => objs[o].status = PROCESSING /\ hist[o].calls = 0
                   /\ hist[o].reports = 1 => objs[o].status \in {COMPLETE, ERROR} /\ hist[o].calls = 1]_vars

\* The second report of the second item of three, after a failure: (2, 3).
C9_Witness ==
    /\ Len(queue) = 3
    /\ StatusAt(1) = ERROR
    /\ hist[queue[2]].reports = 2
    /\ StatusAt(3) = QUEUED
    /\ progress = <<2, 3>>

\* C10: addFiles(files) appends one item per file, in order, and returns
\* their ids in that order; a file the validator rejects is admitted as ERROR
\* with the validator's message, a valid one as QUEUED; an item admitted as
\* ERROR is never handed to the processing function.
C10_AddFilesAdmitsEveryFile ==
    /\ [](\A o \in Objects :
            ~validateImageFile(objs[o].file).valid
                => /\ hist[o].calls = 0
                   /\ objs[o].status = ERROR
                   /\ objs[o].error = validateImageFile(objs[o].file).error)
    /\ [][(op' # op /\ op'.name = "addFiles")
            => LET files == op'.args
                   base == Len(queue)
               IN /\ Len(queue') = base + Len(files)
                  /\ SubSeq(queue', 1, base) = queue
                  /\ Len(op'.ret) = Len(files)
                  /\ \A n \in 1..Len(files) :
                        LET item == objs'[queue'[base + n]] IN
                        /\ op'.ret[n] = item.id
                        /\ item.file = files[n]
                        /\ IF validateImageFile(files[n]).valid
                           THEN item.status = QUEUED /\ item.error = NullMsg
                           ELSE /\ item.status = ERROR
                                /\ item.error = validateImageFile(files[n]).error]_vars

\* addFiles was called with a rejected and a valid file while an item of an
\* earlier call was in flight.
C10_Witness ==
    /\ op.name = "addFiles"
    /\ op.args = <<"notes.txt", "photo.png">>
    /\ Len(queue) = 3
    /\ op.ret = <<objs[queue[2]].id, objs[queue[3]].id>>
    /\ StatusAt(2) = ERROR
    /\ StatusAt(3) = QUEUED
    /\ \E l \in Loops : InFlight(l)

Last(s) == s[Len(s)]
CompleteItems == {n \in Positions : StatusAt(n) = COMPLETE}

\* C11: when a batch run completes, the application shows the overall error
\* and resets the UI if and only if no item of the queue ended COMPLETE;
\* otherwise it shows no error and lists exactly the COMPLETE items' results
\* (after the animation delay), and a failed item is reported through its own
\* item update only.
C11_OverallFailureIffNoneComplete ==
    /\ [](/\ Len(ui.errors)
                = Cardinality({k \in 1..Len(completions) : completions[k] = <<>>})
          /\ \A k \in 1..Len(ui.errors) : ui.errors[k] = NO_IMAGES_PROCESSED
          /\ \A o \in Objects :
                (objs[o].status = ERROR /\ ~Handling(o))
                    => Last(hist[o].updates) = ERROR)
    /\ [][completions' # completions
            => IF CompleteItems = {}
               THEN /\ ui'.errors = Append(ui.errors, NO_IMAGES_PROCESSED)
                    /\ ui'.currentState = "idle"
                    /\ ui'.timers = ui.timers
                    /\ ui'.gallery = ui.gallery
               ELSE /\ ui'.errors = ui.errors
                    /\ ui'.currentState = ui.currentState
                    /\ ui'.gallery = ui.gallery
                    /\ Len(ui'.timers) = Len(ui.timers) + 1
                    /\ Last(ui'.timers).fn = "showBatchResults"
                    /\ Len(Last(ui'.timers).arg) = Cardinality(CompleteItems)
                    /\ \A n \in CompleteItems :
                          Last(ui'.timers).arg[CompleteUpTo(n)].id = objs[queue[n]].id]_vars
    /\ [][Len(ui'.timers) < Len(ui.timers)
            => /\ ui'.gallery = Head(ui.timers).arg
               /\ ui'.gallery # <<>>
               /\ ui'.currentState = "result"
               /\ ui'.errors = ui.errors]_vars

\* A first run in which the only item failed ended with the overall error; a
\* second run with one failed and one completed item ended with the gallery
\* of the one result.
C11_Witness ==
    /\ Len(completions) = 2
    /\ completions[1] = <<>>
    /\ ui.errors = <<NO_IMAGES_PROCESSED>>
    /\ Len(queue) = 3
    /\ StatusAt(2) = ERROR
    /\ hist[queue[2]].calls = 1
    /\ StatusAt(3) = COMPLETE
    /\ ui.gallery = completions[2]
    /\ Len(ui.gallery) = 1
    /\ ui.currentState = "result"

\* C13: no item is retried: over start, cancel and addFiles calls, repeated
\* start() after a finished run included, the processing function is called
\* at most once per item, only for an item that is PROCESSING and was never
\* processed, and an item in ERROR (or another terminal state) is never
\* marked PROCESSING or processed again.
C13_NoRetry ==
    /\ [](\A o \in Objects : hist[o].calls <= 1)
    /\ [][\A o \in Objects :
            /\ hist'[o].calls # hist[o].calls
                  => /\ hist[o].calls = 0
                     /\ hist'[o].calls = 1
                     /\ objs[o].status = PROCESSING
            /\ objs[o].status \in Terminal
                  => /\ hist'[o].calls = hist[o].calls
                     /\ objs'[o].status = objs[o].status]_vars

\* A second run has ended: the item that failed in the first run is still
\* ERROR after one call, an item the first run saw cancelled was not taken
\* up, and the second run processed the item added in between.
C13_Witness ==
    /\ runs = 2
    /\ Len(completions) = 2
    /\ ~SomeLoopActive
    /\ Len(queue) = 3
    /\ StatusAt(1) = ERROR
    /\ hist[queue[1]].calls = 1
    /\ StatusAt(2) = CANCELLED
    /\ hist[queue[2]].calls = 0
    /\ StatusAt(3) = COMPLETE
    /\ hist[queue[3]].calls = 1

\* A step of a public operation (or the settling of a call), as opposed to a
\* step of a start() loop.
OutsideLoop == running = 0
ResetCalled == op' # op /\ op'.name = "reset"
QueueKept == Len(queue') >= Len(queue) /\ SubSeq(queue', 1, Len(queue)) = queue
ItemsUntouched == \A o \in Objects : objs'[o] = objs[o]

\* C14 as stated: an admitted item stays in the queue at its position in
\* every later state, and only the steps of a start() loop change an item.
C14_NeverDeletedOnlyLoopMutates ==
    [][QueueKept /\ (OutsideLoop => ItemsUntouched)]_vars

\* C14 as amended: an admitted item stays in the queue at its position until
\* reset() is called; reset() empties the queue and leaves the item objects
\* as they are; addFiles, start()'s guard, cancel() and reset() change no
\* item's status, result or error: only the steps of a start() loop do.
C14_KeptUntilReset ==
    [][/\ ResetCalled => queue' = <<>>
       /\ ~ResetCalled => QueueKept
       /\ OutsideLoop => ItemsUntouched]_vars

\* reset() was called while an item was in flight and another was waiting:
\* the queue is empty, the two objects are as they were.
C14_Witness ==
    /\ op.name = "reset"
    /\ queue = <<>>
    /\ Len(objs) >= 2
    /\ \E l \in Loops : InFlight(l) /\ objs[loops[l].item].status = PROCESSING
    /\ \E o \in Objects : objs[o].status = QUEUED

StepNumber(step) == CHOOSE n \in 1..Len(Pipeline) : Pipeline[n] = step
FailedBefore(k) ==
    IF k <= Len(single.flows) THEN single.flows[k].failed ELSE "none"
\* The message the user is shown for the failure of activation f.
ErrorShownFor(f) ==
    IF f.failed = "validate"
    THEN validateImageFile(f.file).error
    ELSE PROCESSING_FAILED \o ": "
            \o (IF f.what = "message" THEN FailureMessage ELSE "undefined")

HasBitmap == img.stage \in {"loaded", "composed"}

\* Ratios between 0 and 1, the two of config.js among them.
Ratios ==
    {[num |-> 0, den |-> 1], NARROW_RATIO, EXTENDED_RATIO,
     [num |-> 1, den |-> 2], [num |-> 1, den |-> 1]}

\* n is size * ratio rounded to the nearest whole number, a half upwards.
IsRounded(n, size, ratio) ==
    /\ 2 * ratio.den * n - 2 * size * ratio.num <= ratio.den
    /\ 2 * ratio.den * n - 2 * size * ratio.num > -ratio.den

\* The region lies inside the width x height image, against its right and
\* bottom edges, the ratio's share of it wide and high.
BottomRightRegion(region, width, height, ratio) ==
    /\ IsRounded(region.width, width, ratio)
    /\ IsRounded(region.height, height, ratio)
    /\ 0 <= region.x
    /\ 0 <= region.y
    /\ region.x + region.width = width
    /\ region.y + region.height = height

\* C15: for every image of at least 1 x 1 pixels and every ratio from 0 to 1
\* the watermark region is round(width * ratio) wide and round(height *
\* ratio) high, has x >= 0 and y >= 0, and x + its width = the image's width,
\* y + its height = the image's height: it lies inside the image and touches
\* the bottom-right corner.  So do the regions composeFinalImage asks for.
C15_RegionInsideAtBottomRight ==
    /\ HasBitmap =>
          /\ \A ratio \in Ratios :
                BottomRightRegion(
                    calculateWatermarkRegion(img.bitmap.width,
                                             img.bitmap.height, ratio),
                    img.bitmap.width, img.bitmap.height, ratio)
          /\ BottomRightRegion(origRegion(img.bitmap.width, img.bitmap.height),
                               img.bitmap.width, img.bitmap.height,
                               EXTENDED_RATIO)
    /\ BottomRightRegion(processedRegion, INPUT_SIZE, INPUT_SIZE,
                         EXTENDED_RATIO)

\* An image that is not square, its region one pixel wide and high.
C15_Witness ==
    /\ img.stage = "composed"
    /\ img.bitmap.width # img.bitmap.height
    /\ origRegion(img.bitmap.width, img.bitmap.height).width = 1
    /\ origRegion(img.bitmap.width, img.bitmap.height).x > 0


\* The tensors preprocessImage made of the image.
Encoded == img.stage = "tensors"

\* C16: the mask tensor of preprocessImage holds one value per pixel, each
\* 0.0 or 1.0, and the value at (x, y) is 1.0 exactly if y >= region.y and
\* x >= region.x, region being the watermark region of the image's size at
\* the narrow ratio.
C16_MaskMarksTheRegion ==
    Encoded =>
        LET width == img.imageData.width
            height == img.imageData.height
            region == calculateWatermarkRegion(width, height, NARROW_RATIO)
            mask == img.maskTensor
        IN /\ Len(mask.data) = width * height
           /\ mask.dims = <<1, 1, height, width>>
           /\ \A x \in 0..(width - 1) : \A y \in 0..(height - 1) :
                 /\ mask.data[y * width + x + 1] \in {Zero, One}
                 /\ mask.data[y * width + x + 1] = One
                        <=> (y >= region.y /\ x >= region.x)

\* A mask with pixels to inpaint and pixels to preserve.
C16_Witness ==
    /\ Encoded
    /\ \E i \in 1..Len(img.maskTensor.data) : img.maskTensor.data[i] = One
    /\ \E i \in 1..Len(img.maskTensor.data) : img.maskTensor.data[i] = Zero


\* postprocessImage has decoded the tensor preprocessImage made of an image.
RoundTrip == img.stage = "decoded" /\ img.echo

\* C17: for every image, decoding with postprocessImage, at the same width
\* and height, the tensor that holds exactly the values preprocessImage
\* produced gives an image of the same size whose R, G and B differ from the
\* original's by at most 1 at every pixel, and whose alpha is 255.
C17_RoundTripWithinOne ==
    RoundTrip =>
        LET original == img.imageData
            decoded == img.processedImageData
        IN /\ decoded.width = original.width
           /\ decoded.height = original.height
           /\ Len(decoded.data) = Len(original.data)
           /\ \A i \in 1..Len(original.data) :
                 /\ \A c \in 1..3 :
                       Abs(decoded.data[i][c] - original.data[i][c]) <= 1
                 /\ decoded.data[i][4] = 255

\* A translucent image of several pixels, bytes above and below 128, decoded.
C17_Witness ==
    /\ RoundTrip
    /\ Len(img.imageData.data) > 1
    /\ \E i \in 1..Len(img.imageData.data) :
          /\ img.imageData.data[i][4] # 255
          /\ img.imageData.data[i][1] > 128
    /\ \E i \in 1..Len(img.imageData.data) : img.imageData.data[i][1] < 128


\* postprocessImage has decoded a tensor.
Decoded == img.stage = "decoded"

\* The first 1000 samples of a tensor, all of them if it has fewer.
FirstSamples(data) == 1..Min(SAMPLE_SIZE, Len(data))

\* No sample among the first 1000 is above 2.0 or below -2.0.
WithinTwo(data) ==
    \A i \in FirstSamples(data) :
        FLeq(data[i], Two) /\ FLeq(Float(-2, 0), data[i])

Composed == img.stage = "composed" /\ ~img.threw

\* The pixels of the original, and whether one lies in a rectangle.
PixelsOf(image) == (0..(image.width - 1)) \X (0..(image.height - 1))
InRegion(region, x, y) ==
    /\ region.x <= x /\ x < region.x + region.width
    /\ region.y <= y /\ y < region.y + region.height

Expanded ==
    expandedRegion(img.bitmap.width, img.bitmap.height,
                   featherOf(img.featherSize))
Core == origRegion(img.bitmap.width, img.bitmap.height)

\* C19: composeFinalImage modifies only pixels inside expandedRegion: for
\* every original image, processed image and feather >= 0 the final raster
\* has the original's size, and every pixel of it outside expandedRegion
\* equals the original's pixel there.
C19_OnlyExpandedRegionModified ==
    Composed =>
        /\ img.final.width = img.bitmap.width
        /\ img.final.height = img.bitmap.height
        /\ Len(img.final.data) = Len(img.bitmap.data)
        /\ \A p \in PixelsOf(img.bitmap) :
              ~InRegion(Expanded, p[1], p[2])
                  => PixelAt(img.final, p[1], p[2])
                         = PixelAt(img.bitmap, p[1], p[2])

\* A final canvas with pixels outside the expanded region and a pixel
\* inside it that is no longer the original's.
C19_Witness ==
    /\ Composed
    /\ Expanded.x > 0
    /\ Expanded.y > 0
    /\ featherOf(img.featherSize) > 0
    /\ \E p \in PixelsOf(img.bitmap) :
          /\ InRegion(Expanded, p[1], p[2])
          /\ PixelAt(img.final, p[1], p[2]) # PixelAt(img.bitmap, p[1], p[2])


\* The distance of the original's pixel (x, y) to the core region, squared,
\* and whether the pixel lies inside the core region.
DistanceSquared(x, y) ==
    LET dx == Max(0, Core.x - x)
        dy == Max(0, Core.y - y)
    IN dx * dx + dy * dy
InCore(x, y) == x >= Core.x /\ y >= Core.y

\* Beyond the feather: in the blended region, outside the core region, at a
\* distance from it of at least the feather.
BeyondFeather(x, y) ==
    /\ InRegion(Expanded, x, y)
    /\ ~InCore(x, y)
    /\ DistanceSquared(x, y)
           >= featherOf(img.featherSize) * featherOf(img.featherSize)

\* The pixel the blend was handed for the original's pixel (x, y).
ProcessedAt(x, y) ==
    PixelAt(img.processedScaledData, x - Expanded.x, y - Expanded.y)

Rgb(pixel) == <<pixel[1], pixel[2], pixel[3]>>

\* Every pixel inside the core region is the resampled processed image's;
\* with feather 0 there is no blend band: every pixel outside the core region
\* is the original's.
CoreIsProcessed ==
    /\ \A p \in PixelsOf(img.bitmap) :
          InCore(p[1], p[2])
              => PixelAt(img.final, p[1], p[2]) = ProcessedAt(p[1], p[2])
    /\ featherOf(img.featherSize) = 0 =>
          \A p \in PixelsOf(img.bitmap) :
              ~InCore(p[1], p[2])
                  => PixelAt(img.final, p[1], p[2])
                         = PixelAt(img.bitmap, p[1], p[2])

\* C20 as the spec states it: within the blended region every pixel at a
\* distance of at least featherPixels from the core region is bit-identical
\* to the original, and every pixel inside the core region is bit-identical
\* to the resampled processed image; with featherPixels = 0 every pixel is
\* exactly the original outside the core region and exactly the processed
\* image inside it.
C20_BitIdenticalBeyondFeather ==
    Composed =>
        /\ \A p \in PixelsOf(img.bitmap) :
              BeyondFeather(p[1], p[2])
                  => PixelAt(img.final, p[1], p[2])
                         = PixelAt(img.bitmap, p[1], p[2])
        /\ CoreIsProcessed

\* C20, amended: within the blended region every pixel outside the core
\* region at a distance of at least featherPixels from it has the original's
\* R, G and B and alpha 255, so it is bit-identical to the original where the
\* original is opaque; every pixel inside the core region is bit-identical to
\* the resampled processed image; with featherPixels = 0 every pixel is
\* exactly the original outside the core region and exactly the processed
\* image inside it.
C20_OriginalColourBeyondFeather ==
    Composed =>
        /\ \A p \in PixelsOf(img.bitmap) :
              BeyondFeather(p[1], p[2])
                  => /\ Rgb(PixelAt(img.final, p[1], p[2]))
                            = Rgb(PixelAt(img.bitmap, p[1], p[2]))
                     /\ PixelAt(img.final, p[1], p[2])[4] = 255
        /\ CoreIsProcessed

\* A translucent original composed with a feather of 2: a pixel above the
\* core region beyond the feather, a pixel in the feather zone, a pixel of
\* the core region.
C20_Witness ==
    /\ Composed
    /\ featherOf(img.featherSize) = 2
    /\ PixelAt(img.bitmap, 0, 0)[4] # 255
    /\ \E p \in PixelsOf(img.bitmap) :
          BeyondFeather(p[1], p[2]) /\ p[1] >= Core.x
    /\ \E p \in PixelsOf(img.bitmap) :
          /\ InRegion(Expanded, p[1], p[2])
          /\ ~InCore(p[1], p[2])
          /\ ~BeyondFeather(p[1], p[2])
    /\ \E p \in PixelsOf(img.bitmap) : InCore(p[1], p[2])


\* The squared distances to the core region that the blend of this image
\* meets, and the feather's square and the next number after it.
Distances ==
    {DistanceSquared(p[1], p[2]) :
        p \in {q \in PixelsOf(img.bitmap) : InRegion(Expanded, q[1], q[2])}}
    \cup {0, featherOf(img.featherSize) * featherOf(img.featherSize),
          featherOf(img.featherSize) * featherOf(img.featherSize) + 1}

\* 1.0 as a blend weight.
AlphaOne == 64 * 64 * 64

\* The weight is within [0, 1], is 1 at distance 0 and does not increase
\* with the distance.
AlphaFalls(feather) ==
    /\ blendAlpha(0, feather) = AlphaOne
    /\ \A d \in Distances :
          0 <= blendAlpha(d, feather) /\ blendAlpha(d, feather) <= AlphaOne
    /\ \A d1, d2 \in Distances :
          d1 <= d2 => blendAlpha(d1, feather) >= blendAlpha(d2, feather)

\* C21 as the spec states it: the blend weight lies in [0, 1], is exactly 1
\* at distance 0, exactly 0 at every distance >= featherPixels, and does not
\* increase with the distance (dist1 <= dist2 gives alpha(dist1) >=
\* alpha(dist2)), for every featherPixels >= 0.
C21_AlphaZeroFromFeatherOn ==
    Composed =>
        /\ AlphaFalls(featherOf(img.featherSize))
        /\ \A d \in Distances :
              d >= featherOf(img.featherSize) * featherOf(img.featherSize)
                  => blendAlpha(d, featherOf(img.featherSize)) = 0

\* C21, amended: the blend weight lies in [0, 1], is exactly 1 at distance
\* 0, also when featherPixels is 0, exactly 0 at every distance > 0 that is
\* >= featherPixels, and does not increase with the distance, for every
\* featherPixels >= 0.
C21_AlphaFallsFromOneToZero ==
    Composed =>
        /\ AlphaFalls(featherOf(img.featherSize))
        /\ \A d \in Distances :
              (d > 0 /\ d >= featherOf(img.featherSize)
                                 * featherOf(img.featherSize))
                  => blendAlpha(d, featherOf(img.featherSize)) = 0

\* A blend with three different weights strictly between 0 and 1.
C21_Witness ==
    /\ Composed
    /\ \E d1, d2, d3 \in Distances :
          LET feather == featherOf(img.featherSize)
          IN /\ AlphaOne > blendAlpha(d1, feather)
             /\ blendAlpha(d1, feather) > blendAlpha(d2, feather)
             /\ blendAlpha(d2, feather) > blendAlpha(d3, feather)
             /\ blendAlpha(d3, feather) > 0


\* The rectangles of an original have been worked out.
Regions == img.stage = "regions"

\* Rectangle inner lies within rectangle outer.
Within(inner, outer) ==
    /\ outer.x <= inner.x
    /\ outer.y <= inner.y
    /\ inner.x + inner.width <= outer.x + outer.width
    /\ inner.y + inner.height <= outer.y + outer.height

\* C22: the expanded region of composeFinalImage is the core region (at the
\* extended ratio) widened by the feather and cut at the image's edges: it
\* lies inside the image, contains the core region, starts at
\* (max(0, core.x - feather), max(0, core.y - feather)) and reaches the
\* image's bottom-right corner; for a 1000 x 800 image and feather 20 the
\* core is {x: 840, y: 672, w: 160, h: 128} and the expanded region is
\* {x: 820, y: 652, w: 180, h: 148}.
C22_ExpandedRegionClamped ==
    Regions =>
        LET core == img.origRegion
            expanded == img.expanded
            feather == featherOf(img.featherSize)
        IN /\ core = calculateWatermarkRegion(img.width, img.height,
                                              EXTENDED_RATIO)
           /\ Within(expanded,
                     [x |-> 0, y |-> 0, width |-> img.width,
                      height |-> img.height])
           /\ Within(core, expanded)
           /\ expanded.x = Max(0, core.x - feather)
           /\ expanded.y = Max(0, core.y - feather)
           /\ expanded.x + expanded.width = img.width
           /\ expanded.y + expanded.height = img.height
           /\ (img.width = 1000 /\ img.height = 800 /\ feather = 20) =>
                 /\ core = [x |-> 840, y |-> 672, width |-> 160,
                            height |-> 128]
                 /\ expanded = [x |-> 820, y |-> 652, width |-> 180,
                                height |-> 148]

\* The 1000 x 800 image at the default feather of 20.
C22_Witness ==
    /\ Regions
    /\ img.width = 1000
    /\ img.height = 800
    /\ featherOf(img.featherSize) = 20
    /\ img.expanded.x = 820

\* An image whose expanded region is cut at the left edge but not at the top.
C22_WitnessCut ==
    /\ Regions
    /\ img.origRegion.x - featherOf(img.featherSize) < 0
    /\ img.origRegion.y - featherOf(img.featherSize) > 0


\* The start() activations that have not returned yet.
ActiveLoops == {l \in Loops : Active(l)}

\* C23: every start() that passed the guard and has finished has called
\* onComplete exactly once, with getResults(), and at that call every item
\* of the queue is COMPLETE, ERROR or CANCELLED (none QUEUED or PROCESSING),
\* whether the run ended normally or by cancellation, also when files were
\* added while it was running.
C23_OnCompleteOnceAllTerminal ==
    /\ [](Len(completions) + Cardinality(ActiveLoops) = runs)
    /\ [][completions' # completions
            => /\ \E l \in Loops :
                     /\ loops[l].pc = "notifyDone"
                     /\ ~Active(l)'
                     /\ \A k \in Loops \ {l} : loops'[k] = loops[k]
               /\ completions' = Append(completions, getResults)
               /\ getResults' = getResults
               /\ \A n \in Positions : StatusAt(n) \in Terminal
               /\ \A n \in Positions : StatusAt(n)' \in Terminal]_vars

\* A run that was cancelled after its first item and during which a file was
\* added has called onComplete with the one result: the first item is
\* COMPLETE, the next CANCELLED, the file added during the run is in the
\* queue and not QUEUED.
C23_Witness ==
    /\ Len(completions) = 1
    /\ runs = 1
    /\ ActiveLoops = {}
    /\ Len(queue) = 3
    /\ Len(completions[1]) = 1
    /\ StatusAt(1) = COMPLETE
    /\ StatusAt(2) = CANCELLED
    /\ StatusAt(3) = CANCELLED
    /\ hist[queue[1]].atCancel = PROCESSING


InLoop(l) == loops[l].pc \notin {"idle", "notifyDone"}

\* C25: isProcessing is true exactly while a start() loop is active: never
\* false while a loop is still running, never true once no loop is running,
\* under reset, cancel and callbacks that throw.
C25_FlagExactlyWhileLoopActive == isProcessing <=> (\E l \in Loops : InLoop(l))


\* The calls of modelManager.runInference that have been made and have not
\* settled: one per single-image activation suspended at its inference await
\* and one per batch loop suspended in its processing function.
InferenceCalls ==
    Cardinality({k \in Flows : single.flows[k].pc = "inference"})
        + Cardinality({l \in Loops : InFlight(l)})

\* C26: across the application, whatever files are selected and whenever (a
\* new selection while an earlier one is still being processed included), at
\* most one call of modelManager.runInference is in flight.
C26_AtMostOneInference == InferenceCalls <= 1

====
